---- MODULE Spec2Model ----
(***************************************************************************)
(* Fliplet AI chatbot: the tool-calling agent loop of the Express server   *)
(* (server.js), the direct-mode loop of the CLI (cli.js), the tool         *)
(* dispatcher (tools.js) and the retrying backend client (fliplet-api.js). *)
(*                                                                         *)
(* Three specifications share the module:                                  *)
(*   Spec      one turn through POST /api/chat from a short history, with  *)
(*             every kind of model response and tool outcome;              *)
(*   SpecLong  one turn, through the server or through chatDirect, from a  *)
(*             history close to or beyond the 40-message window;           *)
(*   SpecGet   one call of FlipletAPI.get against every sequence of        *)
(*             backend answers.                                            *)
(*                                                                         *)
(* Encoding of JavaScript values                                           *)
(*   message       [role, content]; content is a sequence of blocks.  A    *)
(*                 plain string content s is the one-block sequence        *)
(*                 <<[type |-> "string", text |-> s]>>.                    *)
(*   JSON.stringify(v)  the record [json |-> v].                           *)
(*   Error object  a record [kind, status, body] (see the backend client). *)
(***************************************************************************)
EXTENDS Integers, Sequences, FiniteSets, TLC

\* ---------------------------------------------------------------------------
\* Program constants
\* ---------------------------------------------------------------------------

MAX_TOOL_ROUNDS == 10

MAX_HISTORY_MESSAGES == 40

MAX_RETRIES == 3

RETRY_BASE_MS == 500

MAX_ENTRIES == 50

BODY_SLICE == 200

\* cli.js chatDirect: the literals of its loop bound and of its slice
DIRECT_ROUNDS == 10

DIRECT_WINDOW == 40

FALLBACK_REPLY == "Hit the tool-call limit. Try a more specific question."

\* ---------------------------------------------------------------------------
\* Bounds of the exploration
\* ---------------------------------------------------------------------------

\* Largest number of tool_use blocks in one model response.
MaxBlocks == 2

\* Departures from the nominal round (one tool invocation that succeeds) that
\* one turn of Spec may contain: an extra block, an unknown tool name, a
\* failing backend call, a stop reason other than end_turn / tool_use.
MaxDeviations == 2

\* The same budget for the turns of SpecLong.
LongDeviations == 1

\* Longest stored history SpecLong starts from.
MaxHistLen == 44

\* Largest number of tool rounds in a previous turn of a stored history.
MaxPrevPairs == 2

\* Number of distinct payloads the backend may answer with.
MaxPayloads == 2

\* The deviation budget of the one streaming request of SpecStream.
StreamDeviations == 1

\* The deviation budget of the blocking turn of SpecReplay.
ReplayDeviations == 1

\* The deviation budget of the second of the two concurrent turns of SpecPair
\* (the first gets nominal answers only).
PairDeviations == 1

\* Longest conversation trimHistory is applied to in SpecTrim.
MaxConvLen == 43

\* Largest identifier value in the input of a tool invocation of SpecTool.
MaxIdValue == 1

VARIABLES
    mode,        \* "chat" (POST /api/chat) or "direct" (cli.js chatDirect)
    message,     \* the user message of this turn
    history,     \* the caller's stored conversation (cli.js `history`)
    messages,    \* the array agentLoop works on (in direct mode: `history` itself)
    base,        \* length of the conversation agentLoop was called with
    round,       \* loop counter of agentLoop / chatDirect
    pc,          \* "idle", "Requesting", "Executing", "done", "error", "rejected"
    stops,       \* stop_reason of every model response of this turn
    blocks,      \* the tool_use blocks of the current round
    idx,         \* position in blocks of the next invocation to dispatch
    toolResults, \* results collected in the current round
    lastOutcome, \* outcome of the latest executeTool call: "none", "ok" or an error kind
    reply,       \* reply returned by agentLoop
    calls,       \* model calls made in this turn
    submitted,   \* the conversation handed to the latest model call
    appended,    \* messages appended since the latest model call was issued
    apiCalls,    \* Backend Client accessor calls made by executeTool in this turn
    nextId,      \* next fresh tool invocation id
    budget,      \* deviations still allowed in this turn
    gpc,         \* FlipletAPI.get: "idle", "fetch", "returned", "thrown"
    attempt,     \* FlipletAPI.get: loop counter
    lastErr,     \* FlipletAPI.get: lastErr
    answers,     \* FlipletAPI.get: backend answers received, one per request
    sleeps,      \* FlipletAPI.get: delays waited, in order
    gresult,     \* FlipletAPI.get: value returned, or error thrown
    before,      \* the caller's stored conversation when the turn began
    req,         \* server: the requests in flight, one record per caller
    heap,        \* server: the arrays allocated by the route handlers
    fpc,         \* function call: "input" or "applied"
    farg,        \* function call: the argument
    fout         \* function call: the value returned

turnVars == <<mode, message, history, messages, base, round, pc, stops, blocks,
              idx, toolResults, lastOutcome, reply, calls, submitted,
              appended, apiCalls, nextId, budget>>

getVars == <<gpc, attempt, lastErr, answers, sleeps, gresult>>

serverVars == <<req, heap>>

fnVars == <<fpc, farg, fout>>

otherVars == <<before, serverVars, fnVars>>

vars == <<turnVars, getVars, otherVars>>

\* ---------------------------------------------------------------------------
\* Messages and content blocks
\* ---------------------------------------------------------------------------

Stringify(v) == [json |-> v]

TextBlock(t) == [type |-> "text", text |-> t]

ToolUse(id, name) == [type |-> "tool_use", id |-> id, name |-> name]

UserText(s) == [role |-> "user", content |-> <<[type |-> "string", text |-> s]>>]

Assistant(content) == [role |-> "assistant", content |-> content]

UserResults(results) == [role |-> "user", content |-> results]

\* server.js 133-137
SuccessResult(id, result) ==
    [type |-> "tool_result", tool_use_id |-> id, content |-> Stringify(result)]

\* server.js 139-144
ErrorResult(id, msg) ==
    [type |-> "tool_result", tool_use_id |-> id,
     content |-> Stringify([error |-> msg]), is_error |-> TRUE]

\* Array.prototype.filter
RECURSIVE Filter(_, _)
Filter(s, type) ==
    IF s = <<>> THEN <<>>
    ELSE IF Head(s).type = type THEN <<Head(s)>> \o Filter(Tail(s), type)
         ELSE Filter(Tail(s), type)

RECURSIVE JoinTexts_Reversed(_)
JoinTexts_Reversed(s) ==
    IF s = <<>> THEN ""
    ELSE IF Len(s) = 1 THEN s[1].text
         ELSE JoinTexts_Reversed(Tail(s)) \o "\n" \o s[1].text

\* Array.prototype.join("\n") over the texts of a sequence of text blocks
RECURSIVE JoinTexts(_)
JoinTexts(s) ==
    IF s = <<>> THEN ""
    ELSE IF Len(s) = 1 THEN s[1].text
         ELSE s[1].text \o "\n" \o JoinTexts(Tail(s))

\* Array.prototype.slice(-n)
SliceLast(ms, n) ==
    IF Len(ms) <= n THEN ms ELSE SubSeq(ms, Len(ms) - n + 1, Len(ms))

TrimHistory_OneLess(ms) ==
    IF Len(ms) <= MAX_HISTORY_MESSAGES THEN ms
    ELSE SliceLast(ms, MAX_HISTORY_MESSAGES - 1)

TrimHistory_First(ms) ==
    IF Len(ms) <= MAX_HISTORY_MESSAGES THEN ms
    ELSE SubSeq(ms, 1, MAX_HISTORY_MESSAGES)

\* server.js trimHistory
TrimHistory(ms) ==
    IF Len(ms) <= MAX_HISTORY_MESSAGES THEN ms
    ELSE SliceLast(ms, MAX_HISTORY_MESSAGES)

\* ---------------------------------------------------------------------------
\* Tool dispatcher (tools.js)
\* ---------------------------------------------------------------------------

\* The keys of `routes` and the Backend Client accessor each one calls.
Routes ==
    [get_app_info            |-> "getApp",
     list_data_sources       |-> "listDataSources",
     get_data_source         |-> "getDataSource",
     get_data_source_entries |-> "getDataSourceEntries",
     list_media_folders      |-> "listMediaFolders",
     get_folder_files        |-> "getFolderFiles",
     get_file_info           |-> "getFile"]

\* The error kinds FlipletAPI.get can throw (the kinds lastErr takes).
GetErrors == {"http", "rate_limited", "network"}

\* What one accessor call can end in: a payload, or an error of FlipletAPI.get.
ApiOutcomes == {"ok"} \cup GetErrors

\* executeTool: "ok", "unknown_tool", or the error thrown by the accessor.
\* `api` is the outcome of the accessor call, which is made only for a routed name.
ExecuteTool(name, api) ==
    IF name \notin DOMAIN Routes THEN "unknown_tool" ELSE api

\* The tool names the model is let to emit: a catalog entry and a name that is
\* not in the catalog.
NominalTool == "list_data_sources"

ToolNames == {NominalTool, "bogus_tool"}

\* ---------------------------------------------------------------------------
\* Stored histories: what previous turns leave behind
\* ---------------------------------------------------------------------------

\* k completed tool rounds: assistant tool_use message, user tool_result message.
RECURSIVE ToolRounds(_, _)
ToolRounds(k, id) ==
    IF k = 0 THEN <<>>
    ELSE <<Assistant(<<ToolUse(id, NominalTool)>>),
           UserResults(<<SuccessResult(id, [payload |-> "data"])>>)>> \o ToolRounds(k - 1, id + 1)

\* One completed turn: the user message, k tool rounds, the final assistant message.
PrevTurn(k, id) ==
    <<UserText("q")>> \o ToolRounds(k, id) \o <<Assistant(<<TextBlock("a")>>)>>

\* The history left by turns with shape[1], shape[2], ... tool rounds.
RECURSIVE BuildHistory(_, _)
BuildHistory(shape, id) ==
    IF shape = <<>> THEN <<>>
    ELSE PrevTurn(Head(shape), id) \o BuildHistory(Tail(shape), id + Head(shape))

RECURSIVE Sum(_)
Sum(shape) == IF shape = <<>> THEN 0 ELSE Head(shape) + Sum(Tail(shape))

ShortShapes == {<<>>, <<1>>}

\* n turns with k tool rounds each, long enough for trimHistory to drop
\* messages once the new user message is added.
LongShapes ==
    {sh \in {[i \in 1..n |-> k] :
                 k \in 0..MaxPrevPairs, n \in 1..(MaxHistLen \div 2)} :
        /\ 2 * Len(sh) + 2 * Sum(sh) <= MaxHistLen
        /\ 2 * Len(sh) + 2 * Sum(sh) >= MAX_HISTORY_MESSAGES}

\* ---------------------------------------------------------------------------
\* The model (Anthropic messages API) as an environment
\* ---------------------------------------------------------------------------

\* Contents of a response: k tool_use blocks with fresh ids id, id+1, ...
ToolUseContents(id) ==
    {[i \in 1..k |-> ToolUse(id + i - 1, names[i])] :
        k \in 1..MaxBlocks, names \in [1..MaxBlocks -> ToolNames]}

\* Deviations in a tool_use response: blocks beyond the first, unknown names.
ContentCost(content) ==
    (Len(content) - 1)
    + Cardinality({i \in 1..Len(content) : content[i].name \notin DOMAIN Routes})

\* Contents of an end_turn response: text blocks only.
EndTurnContents == {<<TextBlock("a")>>, <<TextBlock("a"), TextBlock("b")>>}

\* Contents of a response cut short (stop_reason max_tokens): text, or a
\* tool_use block.
CutContents(id) == {<<TextBlock("a")>>, <<ToolUse(id, NominalTool)>>}

NumToolUse(content) == Len(Filter(content, "tool_use"))

\* ---------------------------------------------------------------------------
\* Initial states
\* ---------------------------------------------------------------------------

NoError == [kind |-> "none", status |-> 0, body |-> 0]

GetIdle ==
    /\ gpc = "idle"
    /\ attempt = 0
    /\ lastErr = NoError
    /\ answers = <<>>
    /\ sleeps = <<>>
    /\ gresult = NoError

\* No request in flight at the server and no function call under way.
OtherIdle ==
    /\ req = <<>>
    /\ heap = <<>>
    /\ fpc = "input"
    /\ farg = <<>>
    /\ fout = <<>>

TurnIdle(h, b) ==
    /\ history = h
    /\ before = h
    /\ messages = <<>>
    /\ base = 0
    /\ round = 0
    /\ pc = "idle"
    /\ stops = <<>>
    /\ blocks = <<>>
    /\ idx = 1
    /\ toolResults = <<>>
    /\ lastOutcome = "none"
    /\ reply = ""
    /\ calls = 0
    /\ submitted = <<>>
    /\ appended = <<>>
    /\ apiCalls = 0
    /\ nextId = Len(h) + 1
    /\ budget = b

\* A request body for POST /api/chat: a message (possibly empty) and a history.
Init ==
    /\ mode = "chat"
    /\ message \in {"", "q"}
    /\ \E sh \in ShortShapes : TurnIdle(BuildHistory(sh, 1), MaxDeviations)
    /\ GetIdle
    /\ OtherIdle

\* ---------------------------------------------------------------------------
\* POST /api/chat and agentLoop (server.js)
\* ---------------------------------------------------------------------------

\* server.js 60: a missing message is rejected with status 400
PostRejected ==
    /\ pc = "idle"
    /\ mode = "chat"
    /\ message = ""
    /\ pc' = "rejected"
    /\ UNCHANGED <<mode, message, history, messages, base, round, stops, blocks,
                   idx, toolResults, lastOutcome, reply, calls,
                   submitted, appended, apiCalls, nextId, budget>>
    /\ UNCHANGED <<getVars, otherVars>>

\* server.js 62-63: trim the history with the new user message, enter agentLoop
Post ==
    /\ pc = "idle"
    /\ mode = "chat"
    /\ message # ""
    /\ messages' = TrimHistory(history \o <<UserText(message)>>)
    /\ base' = Len(messages')
    /\ round' = 0
    /\ pc' = "Requesting"
    /\ UNCHANGED <<mode, message, history, stops, blocks, idx, toolResults,
                   lastOutcome, reply, calls, submitted, appended,
                   apiCalls, nextId, budget>>
    /\ UNCHANGED <<getVars, otherVars>>

LoopContinues_OneMore(r) == r <= MAX_TOOL_ROUNDS

\* server.js 100: the loop condition
LoopContinues(r) == r < MAX_TOOL_ROUNDS

ServerView_Trimmed(ms) == TrimHistory(ms)

\* server.js 112: agentLoop submits its whole `messages` array
ServerView(ms) == ms

\* The model call of one round and the push of its answer: `view` is the
\* conversation submitted, `conv` the array the answer is pushed on.
Respond(view, conv, content, stop) ==
    /\ calls' = calls + 1
    /\ submitted' = view
    /\ messages' = Append(conv, Assistant(content))
    /\ appended' = <<Assistant(content)>>
    /\ stops' = Append(stops, stop)
    /\ nextId' = nextId + NumToolUse(content)

\* server.js 107-124: the response has stop_reason end_turn and its content
\* is one of `contents`
EndTurn(contents) ==
    /\ pc = "Requesting"
    /\ mode = "chat"
    /\ LoopContinues(round)
    /\ \E content \in contents :
          /\ Respond(ServerView(messages), messages, content, "end_turn")
          /\ reply' = JoinTexts(Filter(content, "text"))
    /\ pc' = "done"
    /\ UNCHANGED <<mode, message, history, base, round, blocks, idx,
                   toolResults, lastOutcome, apiCalls, budget>>
    /\ UNCHANGED <<getVars, otherVars>>

ModelEndTurn == EndTurn(EndTurnContents)

\* server.js 107-128: the response has stop_reason tool_use
ModelToolUse ==
    /\ pc = "Requesting"
    /\ mode = "chat"
    /\ LoopContinues(round)
    /\ \E content \in ToolUseContents(nextId) :
          /\ ContentCost(content) <= budget
          /\ budget' = budget - ContentCost(content)
          /\ Respond(ServerView(messages), messages, content, "tool_use")
          /\ blocks' = Filter(content, "tool_use")
    /\ idx' = 1
    /\ toolResults' = <<>>
    /\ pc' = "Executing"
    /\ UNCHANGED <<mode, message, history, base, round, lastOutcome, reply,
                   apiCalls>>
    /\ UNCHANGED <<getVars, otherVars>>

\* server.js 107-126, 149: the response has another stop_reason (max_tokens):
\* neither branch is taken and the loop goes to its next round
ModelOtherStop ==
    /\ pc = "Requesting"
    /\ mode = "chat"
    /\ LoopContinues(round)
    /\ budget >= 1
    /\ budget' = budget - 1
    /\ \E content \in CutContents(nextId) :
          Respond(ServerView(messages), messages, content, "max_tokens")
    /\ round' = round + 1
    /\ UNCHANGED <<mode, message, history, base, pc, blocks, idx, toolResults,
                   lastOutcome, reply, apiCalls>>
    /\ UNCHANGED <<getVars, otherVars>>

\* server.js 105-113, 65-67: the model call throws; the handler answers 500
ModelThrows ==
    /\ pc = "Requesting"
    /\ mode = "chat"
    /\ LoopContinues(round)
    /\ calls' = calls + 1
    /\ submitted' = ServerView(messages)
    /\ appended' = <<>>
    /\ pc' = "error"
    /\ UNCHANGED <<mode, message, history, messages, base, round, stops, blocks,
                   idx, toolResults, lastOutcome, reply, apiCalls,
                   nextId, budget>>
    /\ UNCHANGED <<getVars, otherVars>>

\* One iteration of the loop over the tool_use blocks: executeTool is called
\* for blocks[idx] and `out` is what it ends in.
Dispatch(out) ==
    /\ lastOutcome' = out
    /\ apiCalls' = apiCalls + (IF blocks[idx].name \in DOMAIN Routes THEN 1 ELSE 0)
    /\ budget' = budget - (IF out \in GetErrors THEN 1 ELSE 0)
    /\ idx' = idx + 1

\* The outcomes executeTool can end in for blocks[idx] within the budget.
Outcomes ==
    {ExecuteTool(blocks[idx].name, api) :
        api \in {a \in ApiOutcomes : a = "ok" \/ budget >= 1}}

ExecTool_NoCatch ==
    /\ pc = "Executing"
    /\ mode = "chat"
    /\ idx <= Len(blocks)
    /\ \E out \in Outcomes :
          /\ Dispatch(out)
          /\ IF out = "ok"
             THEN /\ toolResults' =
                        Append(toolResults, SuccessResult(blocks[idx].id, [payload |-> "data"]))
                  /\ pc' = pc
             ELSE /\ toolResults' = toolResults
                  /\ pc' = "error"
    /\ UNCHANGED <<mode, message, history, messages, base, round, stops, blocks,
                   reply, calls, submitted, appended, nextId>>
    /\ UNCHANGED <<getVars, otherVars>>

ExecTool_DropFailed ==
    /\ pc = "Executing"
    /\ mode = "chat"
    /\ idx <= Len(blocks)
    /\ \E out \in Outcomes :
          /\ Dispatch(out)
          /\ toolResults' =
                IF out = "ok"
                THEN Append(toolResults,
                            SuccessResult(blocks[idx].id, [payload |-> "data"]))
                ELSE toolResults
    /\ UNCHANGED <<mode, message, history, messages, base, round, pc, stops,
                   blocks, reply, calls, submitted, appended,
                   nextId>>
    /\ UNCHANGED <<getVars, otherVars>>

\* server.js 128-146: dispatch one tool_use block, record its result
ExecTool ==
    /\ pc = "Executing"
    /\ mode = "chat"
    /\ idx <= Len(blocks)
    /\ \E out \in Outcomes :
          /\ Dispatch(out)
          /\ toolResults' =
                Append(toolResults,
                       IF out = "ok"
                       THEN SuccessResult(blocks[idx].id, [payload |-> "data"])
                       ELSE ErrorResult(blocks[idx].id, out))
    /\ UNCHANGED <<mode, message, history, messages, base, round, pc, stops,
                   blocks, reply, calls, submitted, appended,
                   nextId>>
    /\ UNCHANGED <<getVars, otherVars>>

\* server.js 147-149: push the batch of results, go to the next round
AppendResults ==
    /\ pc = "Executing"
    /\ mode = "chat"
    /\ idx > Len(blocks)
    /\ messages' = Append(messages, UserResults(toolResults))
    /\ appended' = Append(appended, UserResults(toolResults))
    /\ round' = round + 1
    /\ pc' = "Requesting"
    /\ UNCHANGED <<mode, message, history, base, stops, blocks, idx, toolResults,
                   lastOutcome, reply, calls, submitted,
                   apiCalls, nextId, budget>>
    /\ UNCHANGED <<getVars, otherVars>>

\* server.js 151-154: the round limit is reached
RoundLimit ==
    /\ pc = "Requesting"
    /\ mode = "chat"
    /\ ~LoopContinues(round)
    /\ reply' = FALLBACK_REPLY
    /\ pc' = "done"
    /\ UNCHANGED <<mode, message, history, messages, base, round, stops, blocks,
                   idx, toolResults, lastOutcome, calls, submitted, appended,
                   apiCalls, nextId, budget>>
    /\ UNCHANGED <<getVars, otherVars>>

Next ==
    \/ PostRejected
    \/ Post
    \/ ModelEndTurn
    \/ ModelToolUse
    \/ ModelOtherStop
    \/ ModelThrows
    \/ ExecTool
    \/ AppendResults
    \/ RoundLimit

Spec == Init /\ [][Next]_vars

\* ---------------------------------------------------------------------------
\* chatDirect (cli.js): the same loop run in the CLI process on `history`
\* itself.  `messages` stands for that one array, so it moves with `history`.
\* ---------------------------------------------------------------------------

\* cli.js 140: each model call is handed history.slice(-40)
DirectView(ms) == SliceLast(ms, DIRECT_WINDOW)

\* cli.js 134: the loop condition
DirectLoopContinues(r) == r < DIRECT_ROUNDS

\* cli.js 125: the user message is pushed on the stored history
DirectStart ==
    /\ pc = "idle"
    /\ mode = "direct"
    /\ history' = Append(history, UserText(message))
    /\ messages' = history'
    /\ base' = Len(history')
    /\ round' = 0
    /\ pc' = "Requesting"
    /\ UNCHANGED <<mode, message, stops, blocks, idx, toolResults, lastOutcome,
                   reply, calls, submitted, appended, apiCalls,
                   nextId, budget>>
    /\ UNCHANGED <<getVars, otherVars>>

\* cli.js 135-160: the response has stop_reason end_turn
DirectEndTurn ==
    /\ pc = "Requesting"
    /\ mode = "direct"
    /\ DirectLoopContinues(round)
    /\ \E content \in EndTurnContents :
          Respond(DirectView(messages), messages, content, "end_turn")
    /\ history' = messages'
    /\ pc' = "done"
    /\ UNCHANGED <<mode, message, base, round, blocks, idx, toolResults,
                   lastOutcome, reply, apiCalls, budget>>
    /\ UNCHANGED <<getVars, otherVars>>

\* cli.js 135-164: the response has stop_reason tool_use
DirectToolUse ==
    /\ pc = "Requesting"
    /\ mode = "direct"
    /\ DirectLoopContinues(round)
    /\ \E content \in ToolUseContents(nextId) :
          /\ ContentCost(content) <= budget
          /\ budget' = budget - ContentCost(content)
          /\ Respond(DirectView(messages), messages, content, "tool_use")
          /\ blocks' = Filter(content, "tool_use")
    /\ history' = messages'
    /\ idx' = 1
    /\ toolResults' = <<>>
    /\ pc' = "Executing"
    /\ UNCHANGED <<mode, message, base, round, lastOutcome, reply, 
                   apiCalls>>
    /\ UNCHANGED <<getVars, otherVars>>

\* cli.js 135-162, 178: the response has another stop_reason
DirectOtherStop ==
    /\ pc = "Requesting"
    /\ mode = "direct"
    /\ DirectLoopContinues(round)
    /\ budget >= 1
    /\ budget' = budget - 1
    /\ \E content \in CutContents(nextId) :
          Respond(DirectView(messages), messages, content, "max_tokens")
    /\ history' = messages'
    /\ round' = round + 1
    /\ UNCHANGED <<mode, message, base, pc, blocks, idx, toolResults,
                   lastOutcome, reply, apiCalls>>
    /\ UNCHANGED <<getVars, otherVars>>

\* cli.js 135-154, 223-226: the model call throws; main reports the error
DirectThrows ==
    /\ pc = "Requesting"
    /\ mode = "direct"
    /\ DirectLoopContinues(round)
    /\ calls' = calls + 1
    /\ submitted' = DirectView(messages)
    /\ appended' = <<>>
    /\ pc' = "error"
    /\ UNCHANGED <<mode, message, history, messages, base, round, stops, blocks,
                   idx, toolResults, lastOutcome, reply, apiCalls,
                   nextId, budget>>
    /\ UNCHANGED <<getVars, otherVars>>

\* cli.js 164-174: dispatch one tool_use block, record its result
DirectExecTool ==
    /\ pc = "Executing"
    /\ mode = "direct"
    /\ idx <= Len(blocks)
    /\ \E out \in Outcomes :
          /\ Dispatch(out)
          /\ toolResults' =
                Append(toolResults,
                       IF out = "ok"
                       THEN SuccessResult(blocks[idx].id, [payload |-> "data"])
                       ELSE ErrorResult(blocks[idx].id, out))
    /\ UNCHANGED <<mode, message, history, messages, base, round, pc, stops,
                   blocks, reply, calls, submitted, appended,
                   nextId>>
    /\ UNCHANGED <<getVars, otherVars>>

\* cli.js 175-178: push the batch of results on the history, next round
DirectAppendResults ==
    /\ pc = "Executing"
    /\ mode = "direct"
    /\ idx > Len(blocks)
    /\ messages' = Append(messages, UserResults(toolResults))
    /\ history' = messages'
    /\ appended' = Append(appended, UserResults(toolResults))
    /\ round' = round + 1
    /\ pc' = "Requesting"
    /\ UNCHANGED <<mode, message, base, stops, blocks, idx, toolResults,
                   lastOutcome, reply, calls, submitted, apiCalls,
                   nextId, budget>>
    /\ UNCHANGED <<getVars, otherVars>>

\* cli.js 180-181: the round limit is reached
DirectRoundLimit ==
    /\ pc = "Requesting"
    /\ mode = "direct"
    /\ ~DirectLoopContinues(round)
    /\ pc' = "done"
    /\ UNCHANGED <<mode, message, history, messages, base, round, stops, blocks,
                   idx, toolResults, lastOutcome, reply, calls,
                   submitted, appended, apiCalls, nextId, budget>>
    /\ UNCHANGED <<getVars, otherVars>>

\* A turn, through the server or in direct mode, on a stored history that is
\* close to or beyond the window.  readline hands chatDirect no empty message.
InitLong ==
    /\ mode \in {"chat", "direct"}
    /\ message \in {"", "q"}
    /\ mode = "direct" => message = "q"
    /\ \E sh \in LongShapes : TurnIdle(BuildHistory(sh, 1), LongDeviations)
    /\ GetIdle
    /\ OtherIdle

NextLong ==
    \/ Next
    \/ DirectStart
    \/ DirectEndTurn
    \/ DirectToolUse
    \/ DirectOtherStop
    \/ DirectThrows
    \/ DirectExecTool
    \/ DirectAppendResults
    \/ DirectRoundLimit

SpecLong == InitLong /\ [][NextLong]_vars

\* ---------------------------------------------------------------------------
\* Properties of one turn through agentLoop (Spec)
\* ---------------------------------------------------------------------------

\* The conversation agentLoop was called with: agentLoop only pushes on it.
Given == SubSeq(messages, 1, base)

\* server.js 123, 153: updatedMessages is the `messages` array itself
Returned == messages

\* The messages agentLoop has appended in this turn.
TurnIndices == (base + 1)..Len(messages)

IsSuccess(r) == "is_error" \notin DOMAIN r

IsError(r) ==
    /\ "is_error" \in DOMAIN r
    /\ r.is_error = TRUE
    /\ DOMAIN r.content.json = {"error"}

\* The tool_result blocks of `results` that answer invocation `id`.
AnswersTo(results, id) ==
    {j \in DOMAIN results :
        results[j].type = "tool_result" /\ results[j].tool_use_id = id}

\* Every tool_use block of messages[i] is answered exactly once by messages[i+1].
Answered(i) ==
    \A b \in DOMAIN messages[i].content :
        messages[i].content[b].type = "tool_use" =>
            /\ i + 1 <= Len(messages)
            /\ messages[i + 1].role = "user"
            /\ Cardinality(AnswersTo(messages[i + 1].content,
                                     messages[i].content[b].id)) = 1

\* C1: whenever agentLoop is about to issue a model call, every tool_use block
\* of every assistant message appended in this turn is answered, in the user
\* message that immediately follows it, by exactly one tool_result with the
\* same id.
C1_NoUnansweredInvocation ==
    (pc = "Requesting" /\ LoopContinues(round)) =>
        \A i \in TurnIndices : messages[i].role = "assistant" => Answered(i)

\* `results` answers the tool_use blocks of `content` one for one, in order,
\* each result tagged success or error and not both.
BatchMatches(content, results) ==
    LET uses == Filter(content, "tool_use") IN
    /\ Len(results) = Len(uses)
    /\ \A j \in DOMAIN results :
          /\ results[j].type = "tool_result"
          /\ results[j].tool_use_id = uses[j].id
          /\ IsSuccess(results[j]) # IsError(results[j])

\* C2: a round whose stop reason is tool_use appends exactly one user message;
\* it holds as many tool_result blocks as the model's message held tool_use
\* blocks, in the same order with the same ids, and every result is either a
\* success result or an error result, error exactly when executeTool failed.
C2_ResultBatchMatchesInvocations ==
    /\ (pc = "Requesting" /\ stops # <<>> /\ stops[Len(stops)] = "tool_use") =>
          /\ Len(appended) = 2
          /\ appended[1].role = "assistant"
          /\ appended[2].role = "user"
          /\ SubSeq(messages, Len(messages) - 1, Len(messages)) = appended
          /\ BatchMatches(appended[1].content, appended[2].content)
    /\ \A i \in TurnIndices :
          messages[i].role = "user" =>
              BatchMatches(messages[i - 1].content, messages[i].content)
    /\ (pc = "Executing" /\ idx > 1) =>
          /\ Len(toolResults) = idx - 1
          /\ IsError(toolResults[idx - 1]) <=> (lastOutcome # "ok")

\* A batch of two results, the first a success and the second an error.
C2_Witness ==
    /\ pc = "Requesting"
    /\ Len(appended) = 2
    /\ Len(appended[2].content) = 2
    /\ IsSuccess(appended[2].content[1])
    /\ IsError(appended[2].content[2])

\* C3: when executeTool fails for an invocation, agentLoop records an
\* error-tagged tool_result for it and goes on to the next invocation of the
\* round; at the end of the round the whole batch is appended and the loop
\* advances to its next round (the next model call while the round budget
\* lasts); the turn ends in an error only out of a model call.
C3_ToolFailureAbsorbed ==
    /\ [][(pc = "Executing" /\ idx <= Len(blocks) /\ lastOutcome' # "ok") =>
             /\ pc' = "Executing"
             /\ idx' = idx + 1
             /\ toolResults' =
                   Append(toolResults, ErrorResult(blocks[idx].id, lastOutcome'))
             /\ messages' = messages]_vars
    /\ [][(pc = "Executing" /\ idx > Len(blocks)) =>
             /\ Len(toolResults) = Len(blocks)
             /\ messages' = Append(messages, UserResults(toolResults))
             /\ round' = round + 1
             /\ pc' = "Requesting"]_vars
    /\ [][(pc' = "error" /\ pc # "error") => pc = "Requesting"]_vars

\* A round in which the first invocation failed, the second was still
\* dispatched and succeeded, and the loop is about to call the model again.
C3_Witness ==
    /\ pc = "Requesting"
    /\ LoopContinues(round)
    /\ Len(appended) = 2
    /\ Len(appended[2].content) = 2
    /\ IsError(appended[2].content[1])
    /\ IsSuccess(appended[2].content[2])

AllToolUse == \A i \in DOMAIN stops : stops[i] = "tool_use"

\* C4: when every response has stop reason tool_use, agentLoop makes exactly
\* MAX_TOOL_ROUNDS model calls and returns the fixed fallback reply, and the
\* returned conversation is the given one followed by MAX_TOOL_ROUNDS
\* (assistant tool_use message, user tool_result message) pairs.
C4_ToolUseEveryRound ==
    /\ calls <= MAX_TOOL_ROUNDS
    /\ (AllToolUse /\ pc = "done") =>
          /\ calls = MAX_TOOL_ROUNDS
          /\ reply = FALLBACK_REPLY
          /\ Len(Returned) = base + 2 * MAX_TOOL_ROUNDS
          /\ SubSeq(Returned, 1, base) = Given
          /\ \A k \in 1..MAX_TOOL_ROUNDS :
                /\ Returned[base + 2 * k - 1].role = "assistant"
                /\ NumToolUse(Returned[base + 2 * k - 1].content) >= 1
                /\ Returned[base + 2 * k].role = "user"
                /\ BatchMatches(Returned[base + 2 * k - 1].content,
                                Returned[base + 2 * k].content)

\* The turn has ended after tool_use responses only.
C4_Witness ==
    /\ pc = "done"
    /\ stops # <<>>
    /\ AllToolUse
    /\ reply = FALLBACK_REPLY

\* ---------------------------------------------------------------------------
\* FlipletAPI.get (fliplet-api.js)
\* ---------------------------------------------------------------------------

\* What fetch can come back with for one request.  `body` is the payload
\* (a 2xx answer) or the length of the response text (a non-2xx answer).
OkAnswers == {[kind |-> "ok", status |-> 200, body |-> p] : p \in 1..MaxPayloads}

RateLimitAnswer == [kind |-> "rate_limited", status |-> 429, body |-> 0]

HttpErrorAnswers ==
    {[kind |-> "http", status |-> st, body |-> len] :
        st \in {404, 500}, len \in {0, BODY_SLICE, BODY_SLICE + 1}}

NetworkFailure == [kind |-> "network", status |-> 0, body |-> 0]

Min(a, b) == IF a <= b THEN a ELSE b

\* fliplet-api.js 16: new Error(`Failed after ${MAX_RETRIES} attempts: ${path}`)
FailedAfterError == [kind |-> "failed_after", status |-> 0, body |-> 0]

\* fliplet-api.js 23: new Error(`429 Rate Limited on ${path}`)
RateLimitedError == [kind |-> "rate_limited", status |-> 429, body |-> 0]

\* fliplet-api.js 29: the status and the first 200 characters of the body
HttpError(ans) ==
    [kind |-> "http", status |-> ans.status, body |-> Min(ans.body, BODY_SLICE)]

\* fliplet-api.js 24, 34: the delay waited after failed attempt a
Delay(a) == RETRY_BASE_MS * 2 ^ a

GetLoopContinues_OneMore(a) == a <= MAX_RETRIES

\* fliplet-api.js 17: the loop condition
GetLoopContinues(a) == a < MAX_RETRIES

\* fliplet-api.js 15-16: a call of get starts
GetStart ==
    /\ gpc = "idle"
    /\ lastErr' = FailedAfterError
    /\ attempt' = 0
    /\ gpc' = "fetch"
    /\ UNCHANGED <<answers, sleeps, gresult>>
    /\ UNCHANGED <<turnVars, otherVars>>

\* fliplet-api.js 19-31: a 2xx answer; its JSON payload is returned
GetOk ==
    /\ gpc = "fetch"
    /\ GetLoopContinues(attempt)
    /\ \E ans \in OkAnswers :
          /\ answers' = Append(answers, ans)
          /\ gresult' = ans
    /\ gpc' = "returned"
    /\ UNCHANGED <<attempt, lastErr, sleeps>>
    /\ UNCHANGED <<turnVars, otherVars>>

GetRateLimited_KeepsErr ==
    /\ gpc = "fetch"
    /\ GetLoopContinues(attempt)
    /\ answers' = Append(answers, RateLimitAnswer)
    /\ lastErr' = lastErr
    /\ sleeps' = Append(sleeps, Delay(attempt))
    /\ attempt' = attempt + 1
    /\ UNCHANGED <<gpc, gresult>>
    /\ UNCHANGED <<turnVars, otherVars>>

\* fliplet-api.js 19-26: a 429 answer; sleep, then the next iteration
GetRateLimited ==
    /\ gpc = "fetch"
    /\ GetLoopContinues(attempt)
    /\ answers' = Append(answers, RateLimitAnswer)
    /\ lastErr' = RateLimitedError
    /\ sleeps' = Append(sleeps, Delay(attempt))
    /\ attempt' = attempt + 1
    /\ UNCHANGED <<gpc, gresult>>
    /\ UNCHANGED <<turnVars, otherVars>>

\* fliplet-api.js 32-35: the catch block
Catch(err) ==
    /\ lastErr' = err
    /\ sleeps' = IF attempt < MAX_RETRIES - 1
                 THEN Append(sleeps, Delay(attempt))
                 ELSE sleeps
    /\ attempt' = attempt + 1

\* fliplet-api.js 27-30, 32-35: another non-2xx answer; the error is thrown
\* inside the try block and lands in the catch block of the same iteration
GetHttpError ==
    /\ gpc = "fetch"
    /\ GetLoopContinues(attempt)
    /\ \E ans \in HttpErrorAnswers :
          /\ answers' = Append(answers, ans)
          /\ Catch(HttpError(ans))
    /\ UNCHANGED <<gpc, gresult>>
    /\ UNCHANGED <<turnVars, otherVars>>

\* fliplet-api.js 19, 32-35: fetch itself throws
GetNetworkError ==
    /\ gpc = "fetch"
    /\ GetLoopContinues(attempt)
    /\ answers' = Append(answers, NetworkFailure)
    /\ Catch(NetworkFailure)
    /\ UNCHANGED <<gpc, gresult>>
    /\ UNCHANGED <<turnVars, otherVars>>

\* fliplet-api.js 37: the attempts are used up; lastErr is thrown
GetExhausted ==
    /\ gpc = "fetch"
    /\ ~GetLoopContinues(attempt)
    /\ gresult' = lastErr
    /\ gpc' = "thrown"
    /\ UNCHANGED <<attempt, lastErr, answers, sleeps>>
    /\ UNCHANGED <<turnVars, otherVars>>

InitGet ==
    /\ mode = "chat"
    /\ message = "q"
    /\ TurnIdle(<<>>, 0)
    /\ GetIdle
    /\ OtherIdle

NextGet ==
    \/ GetStart
    \/ GetOk
    \/ GetRateLimited
    \/ GetHttpError
    \/ GetNetworkError
    \/ GetExhausted

SpecGet == InitGet /\ [][NextGet]_vars

\* ---------------------------------------------------------------------------
\* Properties of FlipletAPI.get (SpecGet)
\* ---------------------------------------------------------------------------

\* The error the code builds for a failed attempt with answer `ans`.
ErrorOf(ans) ==
    IF ans.kind = "rate_limited" THEN RateLimitedError
    ELSE IF ans.kind = "http" THEN HttpError(ans)
    ELSE ans

AllRateLimited == \A i \in DOMAIN answers : answers[i] = RateLimitAnswer

\* C8: a non-2xx answer other than 429 makes get fail at once: it is the last
\* request of the call, no delay is waited after it, and the error thrown
\* carries its status and the first 200 characters of its body.
C8_HttpErrorFailsImmediately ==
    \A i \in DOMAIN answers :
        answers[i].kind = "http" =>
            /\ i = Len(answers)
            /\ Len(sleeps) < i
            /\ gpc = "thrown"
            /\ gresult = HttpError(answers[i])

\* C9 as stated: three 429 answers in a row end the call, after exactly three
\* requests and without a payload, in the 'Failed after 3 attempts' error.
C9_FailedAfterThreeAttempts ==
    (Len(answers) >= MAX_RETRIES /\ AllRateLimited) =>
        /\ Len(answers) = MAX_RETRIES
        /\ gpc # "returned"
        /\ gpc = "thrown" => gresult = FailedAfterError

\* C9 as amended: three 429 answers in a row end the call, after exactly three
\* requests and without a payload, in the error of the last attempt,
\* '429 Rate Limited on <path>'.
C9_RateLimitedThreeTimes ==
    (Len(answers) >= MAX_RETRIES /\ AllRateLimited) =>
        /\ Len(answers) = MAX_RETRIES
        /\ gpc # "returned"
        /\ gpc = "thrown" => gresult = RateLimitedError

\* get has thrown after three 429 answers.
C9_Witness ==
    /\ gpc = "thrown"
    /\ Len(answers) = MAX_RETRIES
    /\ AllRateLimited

\* C10: one call makes at most MAX_RETRIES requests; a 2xx answer is the last
\* request of the call and its payload is what get returns; get throws only
\* after MAX_RETRIES failed attempts, and then the error of the last one.
C10_RetryBudget ==
    /\ Len(answers) <= MAX_RETRIES
    /\ \A i \in DOMAIN answers :
          answers[i].kind = "ok" =>
              /\ i = Len(answers)
              /\ gpc = "returned"
              /\ gresult = answers[i]
    /\ gpc = "returned" => answers[Len(answers)].kind = "ok"
    /\ gpc = "thrown" =>
          /\ Len(answers) = MAX_RETRIES
          /\ \A i \in DOMAIN answers : answers[i].kind # "ok"
          /\ gresult = ErrorOf(answers[MAX_RETRIES])

\* A payload returned by the third request, after a 429 and a network failure.
C10_Witness ==
    /\ gpc = "returned"
    /\ Len(answers) = MAX_RETRIES
    /\ answers[1] = RateLimitAnswer
    /\ answers[2] = NetworkFailure
    /\ gresult = answers[3]

\* ---------------------------------------------------------------------------
\* Properties of the 40-message window (SpecLong)
\* ---------------------------------------------------------------------------

\* C5: every model call the server's agentLoop makes, in any round, is handed
\* at most MAX_HISTORY_MESSAGES messages.
C5_SubmittedWithinWindow ==
    mode = "chat" => Len(submitted) <= MAX_HISTORY_MESSAGES

IsToolResultMsg(m) ==
    /\ m.role = "user"
    /\ m.content # <<>>
    /\ m.content[1].type = "tool_result"

\* No tool-result message of ms has lost the assistant message it answers.
NoOrphanResult(ms) ==
    \A i \in DOMAIN ms :
        IsToolResultMsg(ms[i]) =>
            /\ i > 1
            /\ ms[i - 1].role = "assistant"
            /\ BatchMatches(ms[i - 1].content, ms[i].content)

\* C6: for a history made of completed turns plus the new user message, the
\* conversation trimHistory returns holds no tool-result message whose
\* assistant tool_use message was dropped; its first message is no
\* tool-result message.
C6_TrimKeepsPairs ==
    (mode = "chat" /\ pc \notin {"idle", "rejected"}) =>
        /\ Given = TrimHistory(history \o <<UserText(message)>>)
        /\ NoOrphanResult(Given)
        /\ ~IsToolResultMsg(Given[1])

\* trimHistory dropped messages and the cut fell right before a tool round.
C6_Witness ==
    /\ mode = "chat"
    /\ pc = "Requesting"
    /\ Len(history) + 1 > MAX_HISTORY_MESSAGES
    /\ base = MAX_HISTORY_MESSAGES
    /\ IsToolResultMsg(Given[2])

\* The conversation handed to a model call: for the first call of a turn the
\* trimmed conversation, for a later call what the previous call was handed
\* followed by the messages appended since.
NoMidTurnTrim ==
    calls' = calls + 1 =>
        IF calls = 0
        THEN submitted' = TrimHistory(Given)
        ELSE submitted' = submitted \o appended

\* C7 as stated: in the server's agentLoop and in chatDirect alike, trimming
\* happens once, before the first model call, and no later call drops a
\* message from the front.
C7_TrimOnlyAtTurnStart == [][NoMidTurnTrim]_vars

\* C7 as amended: the same for the server's agentLoop alone.
C7_ServerTrimOnlyAtTurnStart == [][mode = "chat" => NoMidTurnTrim]_vars

\* A second model call of a server turn whose history was cut by trimHistory.
C7_Witness ==
    /\ mode = "chat"
    /\ calls >= 2
    /\ Len(history) + 1 > MAX_HISTORY_MESSAGES
    /\ Len(submitted) > MAX_HISTORY_MESSAGES


\* ---------------------------------------------------------------------------
\* The server process with several requests in flight (server.js): the two
\* route handlers and agentLoop, with and without the event callback.  Each
\* request has its own locals (a record of req); arrays live in `heap` and a
\* local holds a reference to one, so that two requests sharing an array
\* would show.
\* ---------------------------------------------------------------------------

Callers == DOMAIN req

\* A tool_use block with the input the model gave it.
ToolCall(id, name, input) ==
    [type |-> "tool_use", id |-> id, name |-> name, input |-> input]

\* The input the model gives invocation id.
InputFor(id) == [app_id |-> id]

\* Contents of a tool_use response: k tool_use blocks with fresh ids, with or
\* without a text block before them.
ToolCallContents(id) ==
    {lead \o [i \in 1..k |-> ToolCall(id + i - 1, names[i], InputFor(id + i - 1))] :
        lead \in {<<>>, <<TextBlock("t")>>},
        k \in 1..MaxBlocks, names \in [1..MaxBlocks -> ToolNames]}

\* Deviations in a tool_use response: a text block, blocks beyond the first
\* tool_use block, unknown names.
CallCost(content) ==
    LET uses == Filter(content, "tool_use") IN
    (Len(content) - Len(uses)) + (Len(uses) - 1)
    + Cardinality({i \in DOMAIN uses : uses[i].name \notin DOMAIN Routes})

\* Contents of a response cut short (stop_reason max_tokens).
CutCallContents(id) ==
    {<<TextBlock("a")>>, <<ToolCall(id, NominalTool, InputFor(id))>>}

\* The locals of a request that has just arrived.  `follow` is 0, or the
\* caller whose model responses and tool outcomes this request is given
\* again; `spare` is the number of deviations its answers may contain.
NewRequest(route, msg, hist, follow, spare) ==
    [route |-> route, message |-> msg, history |-> hist, follow |-> follow,
     spare |-> spare,
     pc |-> "idle", messages |-> 0, base |-> 0, round |-> 0,
     blocks |-> <<>>, idx |-> 1, toolResults |-> <<>>, nextId |-> Len(hist) + 1,
     reply |-> "", status |-> 0, body |-> <<>>,
     trace |-> <<>>, script |-> <<>>]

\* server.js 168, 129: the events agentLoop hands to its callback
TextDelta(text) == [type |-> "text_delta", text |-> text]

ToolStart(block) ==
    [type |-> "tool_start", name |-> block.name, input |-> block.input]

\* server.js 81: one server-sent event
Send(event, data) == [event |-> event, data |-> data]

\* server.js 85-88: the callback POST /api/chat/stream gives agentLoop
OnEvent(ev) ==
    IF ev.type = "text_delta" THEN <<Send("delta", [text |-> ev.text])>>
    ELSE IF ev.type = "tool_start"
         THEN <<Send("tool", [name |-> ev.name, input |-> ev.input])>>
         ELSE <<>>

\* server.js 101: agentLoop streams exactly when it was given a callback,
\* which POST /api/chat/stream does and POST /api/chat does not
UseStream(r) == r.route = "stream"

RECURSIVE Emit(_, _)
\* What the events evs of agentLoop write on the response of request r.
Emit(r, evs) ==
    IF evs = <<>> \/ ~UseStream(r) THEN <<>>
    ELSE OnEvent(Head(evs)) \o Emit(r, Tail(evs))

RECURSIVE Deltas(_)
\* server.js 168: one text_delta per piece of text of the response
Deltas(content) ==
    IF content = <<>> THEN <<>>
    ELSE IF Head(content).type = "text"
         THEN <<TextDelta(Head(content).text)>> \o Deltas(Tail(content))
         ELSE Deltas(Tail(content))

\* The call of executeTool for a block, as an entry of the request's trace.
DispatchMark(block) == [event |-> "dispatch", data |-> block]

\* The error the model call throws.
ModelError == "model call failed"

Finished == {"done", "error", "rejected"}

\* The environment may give request c the answer `entry`.  A request that
\* follows another is given the leader's answers again, one by one; the
\* leader is given its next answer once its followers have had the last one.
Admits(c, entry) ==
    LET r == req[c] IN
    IF r.follow = 0
    THEN \A d \in Callers :
             req[d].follow = c => Len(req[d].script) = Len(r.script)
    ELSE /\ Len(r.script) < Len(req[r.follow].script)
         /\ req[r.follow].script[Len(r.script) + 1] = entry

\* Deviations charged for an answer: the leader's answers were charged already.
Charge(r, n) == IF r.follow = 0 THEN n ELSE 0

Alloc_Shared(h, value) == IF h = <<>> THEN <<value>> ELSE [h EXCEPT ![1] = value]

\* A fresh array holding `value` (the spread at server.js 62 / 84 and the
\* slice of trimHistory both build a new array).
Alloc(h, value) == Append(h, value)

\* server.js 60, 74: a missing message is rejected with status 400
SrvReject(c) ==
    /\ req[c].pc = "idle"
    /\ req[c].message = ""
    /\ req' = [req EXCEPT ![c] =
                  [@ EXCEPT !.pc = "rejected", !.status = 400,
                            !.body = [error |-> "message is required"]]]
    /\ UNCHANGED heap
    /\ UNCHANGED <<turnVars, getVars, before, fnVars>>

\* server.js 62-63, 84-85: trim the history with the new user message into an
\* array of this request, enter agentLoop
SrvAccept(c) ==
    /\ req[c].pc = "idle"
    /\ req[c].message # ""
    /\ heap' = Alloc(heap, TrimHistory(req[c].history \o <<UserText(req[c].message)>>))
    /\ req' = [req EXCEPT ![c] =
                  [@ EXCEPT !.pc = "Requesting", !.messages = Len(heap'),
                            !.base = Len(heap'[Len(heap')]), !.round = 0,
                            !.status = IF UseStream(req[c]) THEN 200 ELSE 0]]
    /\ UNCHANGED <<turnVars, getVars, before, fnVars>>

ModelResponse_TextOnly(r, content) ==
    IF UseStream(r) THEN Filter(content, "text") ELSE content

\* server.js 105-113, 170-171: what the model call hands back to agentLoop,
\* the final message, streamed or not
ModelResponse(r, content) == content

\* server.js 64, 89: the route handler answers with agentLoop's result;
\* `conv` is the array agentLoop returned, as it is serialised
Return(r, text, conv) ==
    IF UseStream(r)
    THEN [r EXCEPT !.pc = "done", !.reply = text,
                   !.trace = @ \o <<Send("done", [reply |-> text, history |-> conv])>>]
    ELSE [r EXCEPT !.pc = "done", !.reply = text, !.status = 200,
                   !.body = [reply |-> text, history |-> conv]]

Fail_Silent(r, msg) ==
    IF UseStream(r)
    THEN [r EXCEPT !.pc = "error"]
    ELSE [r EXCEPT !.pc = "error", !.status = 500, !.body = [error |-> msg]]

\* server.js 65-67, 90-91: the route handler's catch block
Fail(r, msg) ==
    IF UseStream(r)
    THEN [r EXCEPT !.pc = "error",
                   !.trace = @ \o <<Send("error", [message |-> msg])>>]
    ELSE [r EXCEPT !.pc = "error", !.status = 500, !.body = [error |-> msg]]

\* server.js 105-116: the model call of one round and the push of its answer
Pushed(r, content, stop) ==
    [r EXCEPT !.trace = @ \o Emit(r, Deltas(content)),
              !.script = Append(@, [stop |-> stop, content |-> content]),
              !.nextId = @ + NumToolUse(content)]

\* server.js 105-124: the response has stop_reason end_turn
SrvEndTurn(c) ==
    LET r == req[c] IN
    /\ r.pc = "Requesting"
    /\ LoopContinues(r.round)
    /\ \E answer \in EndTurnContents :
          LET content == ModelResponse(r, answer)
              conv == Append(heap[r.messages], Assistant(content))
          IN /\ Admits(c, [stop |-> "end_turn", content |-> answer])
             /\ heap' = [heap EXCEPT ![r.messages] = conv]
             /\ req' = [req EXCEPT ![c] =
                           Return(Pushed(r, content, "end_turn"),
                                  JoinTexts(Filter(content, "text")), conv)]
    /\ UNCHANGED <<turnVars, getVars, before, fnVars>>

\* server.js 105-128: the response has stop_reason tool_use
SrvToolUse(c) ==
    LET r == req[c] IN
    /\ r.pc = "Requesting"
    /\ LoopContinues(r.round)
    /\ \E answer \in ToolCallContents(r.nextId) :
          LET content == ModelResponse(r, answer) IN
          /\ Admits(c, [stop |-> "tool_use", content |-> answer])
          /\ Charge(r, CallCost(answer)) <= r.spare
          /\ heap' = [heap EXCEPT ![r.messages] = Append(@, Assistant(content))]
          /\ req' = [req EXCEPT ![c] =
                        [Pushed(r, content, "tool_use") EXCEPT
                            !.pc = "Executing",
                            !.spare = @ - Charge(r, CallCost(answer)),
                            !.blocks = Filter(content, "tool_use"),
                            !.idx = 1,
                            !.toolResults = <<>>]]
    /\ UNCHANGED <<turnVars, getVars, before, fnVars>>

\* server.js 105-126, 149: the response has another stop_reason
SrvOtherStop(c) ==
    LET r == req[c] IN
    /\ r.pc = "Requesting"
    /\ LoopContinues(r.round)
    /\ \E answer \in CutCallContents(r.nextId) :
          LET content == ModelResponse(r, answer) IN
          /\ Admits(c, [stop |-> "max_tokens", content |-> answer])
          /\ Charge(r, 1) <= r.spare
          /\ heap' = [heap EXCEPT ![r.messages] = Append(@, Assistant(content))]
          /\ req' = [req EXCEPT ![c] =
                        [Pushed(r, content, "max_tokens") EXCEPT
                            !.spare = @ - Charge(r, 1),
                            !.round = @ + 1]]
    /\ UNCHANGED <<turnVars, getVars, before, fnVars>>

\* server.js 105-113, 65-67, 90-91: the model call throws, in streaming mode
\* after none or some of the text was handed to the callback
SrvThrows(c) ==
    LET r == req[c] IN
    /\ r.pc = "Requesting"
    /\ LoopContinues(r.round)
    /\ \E partial \in {<<>>, <<TextBlock("a")>>} :
          /\ Admits(c, [stop |-> "throws", content |-> partial])
          /\ req' = [req EXCEPT ![c] =
                        Fail([r EXCEPT
                                 !.trace = @ \o Emit(r, Deltas(partial)),
                                 !.script = Append(@, [stop |-> "throws",
                                                       content |-> partial])],
                             ModelError)]
    /\ UNCHANGED heap
    /\ UNCHANGED <<turnVars, getVars, before, fnVars>>

\* server.js 128-146: announce one tool_use block to the callback, dispatch
\* it, record its result
SrvExecTool(c) ==
    LET r == req[c]
        block == r.blocks[r.idx]
    IN
    /\ r.pc = "Executing"
    /\ r.idx <= Len(r.blocks)
    /\ \E api \in ApiOutcomes :
          LET outcome == ExecuteTool(block.name, api)
              cost == Charge(r, IF outcome \in GetErrors THEN 1 ELSE 0)
          IN /\ Admits(c, [stop |-> "tool", content |-> outcome])
             /\ api = outcome \/ api = "ok"
             /\ cost <= r.spare
             /\ req' = [req EXCEPT ![c] =
                           [r EXCEPT
                               !.trace = @ \o Emit(r, <<ToolStart(block)>>)
                                           \o <<DispatchMark(block)>>,
                               !.script = Append(@, [stop |-> "tool",
                                                     content |-> outcome]),
                               !.toolResults =
                                   Append(@, IF outcome = "ok"
                                             THEN SuccessResult(block.id, [payload |-> "data"])
                                             ELSE ErrorResult(block.id, outcome)),
                               !.spare = @ - cost,
                               !.idx = @ + 1]]
    /\ UNCHANGED heap
    /\ UNCHANGED <<turnVars, getVars, before, fnVars>>

\* server.js 147-149: push the batch of results, go to the next round
SrvAppendResults(c) ==
    LET r == req[c] IN
    /\ r.pc = "Executing"
    /\ r.idx > Len(r.blocks)
    /\ heap' = [heap EXCEPT ![r.messages] = Append(@, UserResults(r.toolResults))]
    /\ req' = [req EXCEPT ![c] =
                  [r EXCEPT !.pc = "Requesting", !.round = @ + 1]]
    /\ UNCHANGED <<turnVars, getVars, before, fnVars>>

\* server.js 151-154: the round limit is reached
SrvRoundLimit(c) ==
    LET r == req[c] IN
    /\ r.pc = "Requesting"
    /\ ~LoopContinues(r.round)
    /\ req' = [req EXCEPT ![c] = Return(r, FALLBACK_REPLY, heap[r.messages])]
    /\ UNCHANGED heap
    /\ UNCHANGED <<turnVars, getVars, before, fnVars>>

\* One streaming request with a short history and a possibly empty message.
InitStream ==
    /\ mode = "chat"
    /\ message = "q"
    /\ TurnIdle(<<>>, 0)
    /\ GetIdle
    /\ \E msg \in {"", "q"}, sh \in ShortShapes :
          req = <<NewRequest("stream", msg, BuildHistory(sh, 1), 0, StreamDeviations)>>
    /\ heap = <<>>
    /\ fpc = "input"
    /\ farg = <<>>
    /\ fout = <<>>

NextServer ==
    \/ \E c \in Callers : SrvReject(c)
    \/ \E c \in Callers : SrvAccept(c)
    \/ \E c \in Callers : SrvEndTurn(c)
    \/ \E c \in Callers : SrvToolUse(c)
    \/ \E c \in Callers : SrvOtherStop(c)
    \/ \E c \in Callers : SrvThrows(c)
    \/ \E c \in Callers : SrvExecTool(c)
    \/ \E c \in Callers : SrvAppendResults(c)
    \/ \E c \in Callers : SrvRoundLimit(c)

\* Every await of a handler resolves or rejects: a request in flight goes on.
SpecStream == InitStream /\ [][NextServer]_vars /\ WF_vars(NextServer)

\* ---------------------------------------------------------------------------
\* Properties of the streaming route (SpecStream)
\* ---------------------------------------------------------------------------

\* The server-sent events written on the response of request r, in order.
Events(r) == SelectSeq(r.trace, LAMBDA e : e.event # "dispatch")

IsTerminal(e) == e.event \in {"done", "error"}

Terminals(r) == {i \in DOMAIN Events(r) : IsTerminal(Events(r)[i])}

\* The turn of request r was accepted: its message is present.
Accepted(r) == r.message # ""

\* The events of r so far are delta and tool events, then at most one
\* terminal event; the terminal event is there exactly when the handler has
\* ended, done with the reply and the returned conversation, or error with
\* the message of the failure.
EventProtocol(r) ==
    LET evs == Events(r) IN
    /\ \A i \in DOMAIN evs : evs[i].event \in {"delta", "tool", "done", "error"}
    /\ \A i \in Terminals(r) : i = Len(evs)
    /\ r.pc \in {"done", "error"} <=> Terminals(r) # {}
    /\ r.pc = "done" =>
          evs[Len(evs)] =
              Send("done", [reply |-> r.reply, history |-> heap[r.messages]])
    /\ r.pc = "error" => evs[Len(evs)] = Send("error", [message |-> ModelError])

\* C11: on POST /api/chat/stream every accepted turn writes delta and tool
\* events and then exactly one terminal event, done (reply, history) or error
\* (message); nothing is written after the terminal event, and every
\* accepted turn reaches its terminal event.
C11_StreamEventProtocol ==
    /\ [](\A c \in Callers : Accepted(req[c]) => EventProtocol(req[c]))
    /\ [][\A c \in Callers :
             Terminals(req[c]) # {} => req'[c].trace = req[c].trace]_vars
    /\ (Accepted(req[1]) ~> Terminals(req[1]) # {})

\* A turn that ended in an error event after delta and tool events.
C11_Witness ==
    /\ req[1].pc = "error"
    /\ \E i, j \in DOMAIN Events(req[1]) :
          /\ Events(req[1])[i].event = "delta"
          /\ Events(req[1])[j].event = "tool"

RECURSIVE ToolUsesOf(_)
\* The tool_use blocks of the assistant messages of ms, in order.
ToolUsesOf(ms) ==
    IF ms = <<>> THEN <<>>
    ELSE (IF Head(ms).role = "assistant"
          THEN Filter(Head(ms).content, "tool_use") ELSE <<>>)
         \o ToolUsesOf(Tail(ms))

\* The tool invocations the model has made in the turn of request r.
Invocations(r) ==
    ToolUsesOf(SubSeq(heap[r.messages], r.base + 1, Len(heap[r.messages])))

ToolEvents(r) == SelectSeq(r.trace, LAMBDA e : e.event = "tool")

\* The entries a step has added to the trace of request c.
Written(c) == SubSeq(req'[c].trace, Len(req[c].trace) + 1, Len(req'[c].trace))

\* Between two rounds every invocation made so far has its tool event, with
\* its name and input, in the order the model made them.
AllAnnounced(r) ==
    /\ Len(ToolEvents(r)) = Len(Invocations(r))
    /\ \A i \in DOMAIN ToolEvents(r) :
          ToolEvents(r)[i] = Send("tool", [name |-> Invocations(r)[i].name,
                                           input |-> Invocations(r)[i].input])

\* Every call of executeTool comes right after the tool event of its block.
AnnouncedBeforeDispatch(r) ==
    \A k \in DOMAIN r.trace :
        r.trace[k].event = "dispatch" =>
            /\ k > 1
            /\ r.trace[k - 1] = Send("tool", [name |-> r.trace[k].data.name,
                                              input |-> r.trace[k].data.input])

\* C12: in streaming mode every tool invocation of every round gets exactly
\* one tool_start event with its name and input, before executeTool is called
\* for it and in the order the model made the invocations; the text_delta
\* events of a round come before its tool_start events (the model call of a
\* round writes only delta events and the dispatches that follow write none).
C12_ToolStartPerInvocation ==
    /\ [](\A c \in Callers :
             (UseStream(req[c]) /\ req[c].pc \in {"Requesting", "done", "error"}) =>
                 AllAnnounced(req[c]) /\ AnnouncedBeforeDispatch(req[c]))
    /\ [][\A c \in Callers :
             /\ req[c].pc = "Requesting" =>
                   \A k \in DOMAIN Written(c) :
                       Written(c)[k].event \in {"delta", "done", "error"}
             /\ req[c].pc = "Executing" =>
                   \A k \in DOMAIN Written(c) : Written(c)[k].event # "delta"]_vars

\* ---------------------------------------------------------------------------
\* A blocking turn, then a streaming turn given the same input, the same
\* model responses and the same tool outcomes (SpecReplay)
\* ---------------------------------------------------------------------------

\* Request 1 runs through POST /api/chat; request 2, with the same body, runs
\* through POST /api/chat/stream and is given request 1's answers again, each
\* one right after request 1 had it.
InitReplay ==
    /\ mode = "chat"
    /\ message = "q"
    /\ TurnIdle(<<>>, 0)
    /\ GetIdle
    /\ \E msg \in {"", "q"} :
          req = <<NewRequest("chat", msg, <<>>, 0, ReplayDeviations),
                  NewRequest("stream", msg, <<>>, 1, 0)>>
    /\ heap = <<>>
    /\ fpc = "input"
    /\ farg = <<>>
    /\ fout = <<>>

SpecReplay == InitReplay /\ [][NextServer]_vars

IsPrefix(s, t) == Len(s) <= Len(t) /\ SubSeq(t, 1, Len(s)) = s

\* The calls of executeTool request r has made, in order.
Dispatches(r) == SelectSeq(r.trace, LAMBDA e : e.event = "dispatch")

\* The array agentLoop of request r works on and returns.
Conversation(r) == IF r.messages = 0 THEN <<>> ELSE heap[r.messages]

\* One of s and t continues the other.
Agree(s, t) == IsPrefix(s, t) \/ IsPrefix(t, s)

\* C13: agentLoop with an event callback and agentLoop without one, given
\* the same conversation, the same model responses and the same tool
\* outcomes, make the same tool dispatches in the same order and build the
\* same conversation all along; when both have ended they have used the same
\* answers and ended the same way, with the same reply and the same returned
\* conversation.
C13_StreamingEqualsBlocking ==
    \A c, d \in Callers :
        (req[d].follow = c /\ ~UseStream(req[c]) /\ UseStream(req[d])) =>
            /\ Agree(Dispatches(req[d]), Dispatches(req[c]))
            /\ Agree(Conversation(req[d]), Conversation(req[c]))
            /\ Len(req[d].script) = Len(req[c].script) =>
                  Dispatches(req[d]) = Dispatches(req[c])
            /\ (req[d].pc \in Finished /\ req[c].pc \in Finished) =>
                  /\ req[d].script = req[c].script
                  /\ req[d].pc = req[c].pc
                  /\ req[d].reply = req[c].reply
                  /\ req[d].round = req[c].round
                  /\ Conversation(req[d]) = Conversation(req[c])

\* Both runs are over after a round in which a tool failed.
C13_Witness ==
    /\ req[1].pc = "done"
    /\ req[2].pc = "done"
    /\ Len(Dispatches(req[2])) >= 1
    /\ \E i \in DOMAIN req[2].script :
          req[2].script[i].stop = "tool" /\ req[2].script[i].content # "ok"

\* ---------------------------------------------------------------------------
\* Two turns from different callers in flight at once (SpecPair)
\* ---------------------------------------------------------------------------

\* Two requests with different bodies; their steps interleave in any order.
\* The first is given nominal answers, the second may be given deviations.
InitPair ==
    /\ mode = "chat"
    /\ message = "q"
    /\ TurnIdle(<<>>, 0)
    /\ GetIdle
    /\ \E msg \in {"", "r"} :
          req = <<NewRequest("chat", "q", <<>>, 0, 0),
                  NewRequest("chat", msg, BuildHistory(<<1>>, 1), 0, PairDeviations)>>
    /\ heap = <<>>
    /\ fpc = "input"
    /\ farg = <<>>
    /\ fout = <<>>

SpecPair == InitPair /\ [][NextServer]_vars

\* The tool_result agentLoop builds for `block` when executeTool ended in
\* `outcome`.
ResultFor(block, outcome) ==
    IF outcome = "ok" THEN SuccessResult(block.id, [payload |-> "data"])
    ELSE ErrorResult(block.id, outcome)

RECURSIVE Alone(_, _, _, _)
\* The conversation a turn run on its own builds from `conv` when the model
\* and the tools answer with `script`: an assistant message per model
\* response and, once all the invocations of a tool_use response (pending)
\* are answered, one user message with their results.
Alone(conv, script, pending, results) ==
    IF script = <<>> THEN conv
    ELSE LET e == Head(script) IN
         IF e.stop = "throws" THEN conv
         ELSE IF e.stop = "tool"
         THEN LET batch == Append(results, ResultFor(Head(pending), e.content)) IN
              IF Len(pending) = 1
              THEN Alone(Append(conv, UserResults(batch)), Tail(script), <<>>, <<>>)
              ELSE Alone(conv, Tail(script), Tail(pending), batch)
         ELSE Alone(Append(conv, Assistant(e.content)), Tail(script),
                    IF e.stop = "tool_use" THEN Filter(e.content, "tool_use")
                    ELSE <<>>,
                    <<>>)

\* The rounds a turn run on its own has completed after `script`: the model
\* responses that did not end the turn.
AloneRounds(script) ==
    Cardinality({i \in DOMAIN script : script[i].stop \in {"tool_use", "max_tokens"}})

\* The reply of a turn run on its own that has returned after `script`.
AloneReply(script) ==
    IF script # <<>> /\ script[Len(script)].stop = "end_turn"
    THEN JoinTexts(Filter(script[Len(script)].content, "text"))
    ELSE FALLBACK_REPLY

\* Between two rounds, and at its end, the turn of request r is where a turn
\* run on its own with r's body and r's answers would be.
AsIfAlone(r) ==
    r.pc \in {"Requesting", "done", "error"} =>
        /\ Conversation(r) =
              Alone(TrimHistory(r.history \o <<UserText(r.message)>>),
                    r.script, <<>>, <<>>)
        /\ r.round = AloneRounds(r.script)
        /\ r.pc = "done" =>
              /\ r.reply = AloneReply(r.script)
              /\ r.body = [reply |-> r.reply, history |-> Conversation(r)]

\* C14: with two turns in flight at once and their model calls and tool
\* dispatches interleaved in any order, each turn's conversation, round
\* count and reply are those of the same turn run on its own; a step of one
\* request changes neither the locals nor the conversation of the other.
C14_ConcurrentTurnsIsolated ==
    /\ [](\A c \in Callers : AsIfAlone(req[c]))
    /\ [][\A c, d \in Callers :
             (c # d /\ req'[c] # req[c]) =>
                 /\ req'[d] = req[d]
                 /\ Conversation(req[d])' = Conversation(req[d])]_vars

\* Both turns are under way at once, each past its first round.
C14_Witness ==
    /\ req[1].pc = "Executing"
    /\ req[2].pc = "Requesting"
    /\ req[1].round >= 1
    /\ req[2].round >= 1
    /\ Conversation(req[1]) # Conversation(req[2])

\* ---------------------------------------------------------------------------
\* Properties of the stored and the returned history (SpecLong)
\* ---------------------------------------------------------------------------

\* C15: when a model call throws, in whichever round, the conversation the
\* caller has stored after the turn is the one it had stored before the turn,
\* in server mode and in direct mode alike.
C15_FailedTurnDiscarded == pc = "error" => history = before

\* The turn made k >= 0 rounds of tool calls and then ended with end_turn.
ToolRoundsThenEnd ==
    /\ stops # <<>>
    /\ stops[Len(stops)] = "end_turn"
    /\ \A i \in 1..(Len(stops) - 1) : stops[i] = "tool_use"

\* C16: the history POST /api/chat returns after k rounds of tool calls and
\* an end_turn has the length of the input history plus 2 + 2k: plus 4 after
\* one round, for an input history of any length.
C16_ReturnedHistoryLength ==
    (mode = "chat" /\ pc = "done" /\ ToolRoundsThenEnd) =>
        Len(Returned) = Len(history) + 2 + 2 * (Len(stops) - 1)

\* ---------------------------------------------------------------------------
\* trimHistory as a function (SpecTrim)
\* ---------------------------------------------------------------------------

\* A conversation of turns with one tool round each, every turn with an
\* invocation id of its own, long enough to cut the arguments from.
LongConversation == BuildHistory([i \in 1..(MaxConvLen \div 4 + 2) |-> 1], 1)

\* The arrays trimHistory is called with: any stretch of the conversation,
\* from the empty one to ones beyond the window.
TrimArgs ==
    {SubSeq(LongConversation, a, a + n - 1) : a \in 1..4, n \in 0..MaxConvLen}

InitTrim ==
    /\ mode = "chat"
    /\ message = "q"
    /\ TurnIdle(<<>>, 0)
    /\ GetIdle
    /\ req = <<>>
    /\ heap = <<>>
    /\ fpc = "input"
    /\ farg \in TrimArgs
    /\ fout = <<>>

\* server.js 176-180: trimHistory(farg)
TrimCall ==
    /\ fpc = "input"
    /\ fout' = TrimHistory(farg)
    /\ fpc' = "trimmed"
    /\ UNCHANGED farg
    /\ UNCHANGED <<turnVars, getVars, before, serverVars>>

\* server.js 176-180: trimHistory applied to its own result
TrimAgain ==
    /\ fpc = "trimmed"
    /\ fout' = TrimHistory(fout)
    /\ fpc' = "retrimmed"
    /\ UNCHANGED farg
    /\ UNCHANGED <<turnVars, getVars, before, serverVars>>

NextTrim == TrimCall \/ TrimAgain

SpecTrim == InitTrim /\ [][NextTrim]_vars

\* s is the last n elements of t, in their order.
IsLast(s, n, t) ==
    /\ Len(s) = n
    /\ \A i \in 1..n : s[i] = t[Len(t) - n + i]

\* C17: trimHistory returns the last MAX_HISTORY_MESSAGES messages, in their
\* order, of a conversation longer than that, and a conversation that is not
\* longer unchanged; applied to its own result it returns that result.
C17_TrimHistoryLast40Idempotent ==
    /\ [](fpc = "trimmed" =>
             IF Len(farg) > MAX_HISTORY_MESSAGES
             THEN IsLast(fout, MAX_HISTORY_MESSAGES, farg)
             ELSE fout = farg)
    /\ [][fpc = "trimmed" => fout' = fout]_vars

\* trimHistory has been applied twice to a conversation of more than 40
\* messages.
C17_Witness ==
    /\ fpc = "retrimmed"
    /\ Len(farg) > MAX_HISTORY_MESSAGES
    /\ Len(fout) = MAX_HISTORY_MESSAGES

\* ---------------------------------------------------------------------------
\* executeTool as a function of the invocation's name and input (SpecTool)
\* ---------------------------------------------------------------------------

\* JavaScript values: a number, and the value of a missing property (which a
\* template literal prints as 'undefined').
Num(n) == [type |-> "number", value |-> n]

Undefined == [type |-> "undefined", value |-> 0]

\* tools.js 59: id(key) is input[key]
Id(input, key) == IF key \in DOMAIN input THEN input[key] ELSE Undefined

\* The falsy values an identifier can take.
Falsy == {Num(0), Undefined}

\* tools.js 60: input.app_id || defaultAppId
AppIdOf(input, defaultAppId) ==
    IF Id(input, "app_id") \in Falsy THEN defaultAppId ELSE Id(input, "app_id")

\* tools.js 28, 34, 45, 51: the parameter buildTools declares as required
Required ==
    [get_data_source         |-> "data_source_id",
     get_data_source_entries |-> "data_source_id",
     get_folder_files        |-> "folder_id",
     get_file_info           |-> "file_id"]

\* tools.js 63-69: the argument each route hands to its accessor
RouteArg(name, input, defaultAppId) ==
    IF name \in DOMAIN Required THEN Id(input, Required[name])
    ELSE AppIdOf(input, defaultAppId)

\* fliplet-api.js 40-67: the path each accessor requests, as the pieces of
\* its template literal
AccessorPath(accessor, x) ==
    CASE accessor = "getApp"               -> <<"/v1/apps/", x>>
      [] accessor = "listDataSources"      -> <<"/v1/data-sources?appId=", x>>
      [] accessor = "getDataSource"        -> <<"/v1/data-sources/", x>>
      [] accessor = "getDataSourceEntries" -> <<"/v1/data-sources/", x, "/data">>
      [] accessor = "listMediaFolders"     -> <<"/v1/media/folders?appId=", x>>
      [] accessor = "getFolderFiles"       -> <<"/v1/media/folders/", x, "/files">>
      [] accessor = "getFile"              -> <<"/v1/media/files/", x>>

\* tools.js 58-75: what a call of executeTool does before its first await:
\* it throws 'Unknown tool', or it calls one accessor, whose get issues a
\* request for the accessor's path.
ExecuteToolCall(name, input, defaultAppId) ==
    IF name \notin DOMAIN Routes
    THEN [threw |-> "Unknown tool", calls |-> <<>>, requests |-> <<>>]
    ELSE LET x == RouteArg(name, input, defaultAppId) IN
         [threw |-> "none",
          calls |-> <<[accessor |-> Routes[name], arg |-> x]>>,
          requests |-> <<AccessorPath(Routes[name], x)>>]

\* The app id the server was started for.
DefaultAppId == Num(7)

InputKeys == {"app_id", "data_source_id", "folder_id", "file_id"}

\* The inputs a tool_use block can carry: any of the identifiers, each present
\* or not.
ToolInputs ==
    UNION {[K -> {Num(n) : n \in 0..MaxIdValue}] : K \in SUBSET InputKeys}

InitTool ==
    /\ mode = "chat"
    /\ message = "q"
    /\ TurnIdle(<<>>, 0)
    /\ GetIdle
    /\ req = <<>>
    /\ heap = <<>>
    /\ fpc = "input"
    /\ farg \in [name : DOMAIN Routes \cup {"bogus_tool"}, input : ToolInputs]
    /\ fout = <<>>

\* tools.js 58-75: executeTool(name, input, fliplet, FLIPLET_APP_ID)
ExecuteToolStep ==
    /\ fpc = "input"
    /\ fout' = ExecuteToolCall(farg.name, farg.input, DefaultAppId)
    /\ fpc' = "executed"
    /\ UNCHANGED farg
    /\ UNCHANGED <<turnVars, getVars, before, serverVars>>

NextTool == ExecuteToolStep

SpecTool == InitTool /\ [][NextTool]_vars

\* C18: called for a tool whose identifier is required with an input that
\* lacks it, executeTool fails without calling an accessor of the Backend
\* Client, and no backend request is issued.
C18_MissingIdRejected ==
    (/\ fpc = "executed"
     /\ farg.name \in DOMAIN Required
     /\ Required[farg.name] \notin DOMAIN farg.input) =>
        /\ fout.threw # "none"
        /\ fout.calls = <<>>
        /\ fout.requests = <<>>

\* ---------------------------------------------------------------------------
\* fliplet-api.js: getDataSourceEntries and truncateEntries
\* ---------------------------------------------------------------------------

\* Largest number of rows of a backend payload
MaxRows == 52

\* The values truncateEntries handles: an array, a plain object holding a
\* row collection under one key, a function, undefined and null.
List(rows) == [type |-> "array", items |-> rows]

Wrapped(key, rows) == [type |-> "object", key |-> key, items |-> rows]

\* Array.prototype.entries, the method every array has under the name
\* `entries`: a function of no parameters, so its length is 0
ArrayEntries == [type |-> "function", items |-> <<>>]

Missing == [type |-> "undefined", items |-> <<>>]

Null == [type |-> "null", items |-> <<>>]

\* data?.key
Prop(data, key) ==
    IF data.type = "array"
    THEN IF key = "entries" THEN ArrayEntries ELSE Missing
    ELSE IF data.type = "object" /\ data.key = key
         THEN List(data.items)
         ELSE Missing

Truthy(v) == v.type \notin {"undefined", "null"}

\* a || b
Or(a, b) == IF Truthy(a) THEN a ELSE b

\* v.length
Length(v) == IF v.type = "function" THEN 0 ELSE Len(v.items)

\* entries.slice(0, n)
Slice(rows, n) == SubSeq(rows, 1, IF n < Len(rows) THEN n ELSE Len(rows))

\* The truncated payload (its note is a text made of the two counts)
Truncated(entries) ==
    [type |-> "object",
     truncated |-> TRUE,
     totalCount |-> Length(entries),
     shownCount |-> MAX_ENTRIES,
     entries |-> Slice(entries.items, MAX_ENTRIES)]

truncateEntries_Strict(data) ==
    LET entries == Or(Prop(data, "entries"),
                      Or(Prop(data, "rows"),
                         IF data.type = "array" THEN data ELSE Null))
    IN  IF ~Truthy(entries) \/ Length(entries) < MAX_ENTRIES
        THEN data
        ELSE Truncated(entries)

\* fliplet-api.js 72-84
truncateEntries(data) ==
    LET entries == Or(Prop(data, "entries"),
                      Or(Prop(data, "rows"),
                         IF data.type = "array" THEN data ELSE Null))
    IN  IF ~Truthy(entries) \/ Length(entries) <= MAX_ENTRIES
        THEN data
        ELSE Truncated(entries)

\* fliplet-api.js 52-55, applied to the payload its GET returned
getDataSourceEntries(data) == truncateEntries(data)

\* Rows in two orders, so that the order of a sample can be told
Ascending(n) == [i \in 1..n |-> i]

Descending(n) == [i \in 1..n |-> n + 1 - i]

RowLists == {Ascending(n) : n \in 0..MaxRows} \cup {Descending(n) : n \in 0..MaxRows}

\* What the backend answers for /v1/data-sources/:id/data: the rows under
\* `entries`, under `rows`, as a bare list, or an object holding neither.
Payloads ==
    {List(rows) : rows \in RowLists}
        \cup {Wrapped(key, rows) : key \in {"entries", "rows", "error"}, rows \in RowLists}

IsListing(data) == data.type = "array" \/ data.key \in {"entries", "rows"}

InitEntries ==
    /\ mode = "chat"
    /\ message = "q"
    /\ TurnIdle(<<>>, 0)
    /\ GetIdle
    /\ req = <<>>
    /\ heap = <<>>
    /\ fpc = "input"
    /\ farg \in Payloads
    /\ fout = <<>>

\* fliplet-api.js 52-55: getDataSourceEntries(id) once its GET has answered
EntriesCall ==
    /\ fpc = "input"
    /\ fout' = getDataSourceEntries(farg)
    /\ fpc' = "listed"
    /\ UNCHANGED farg
    /\ UNCHANGED <<turnVars, getVars, before, serverVars>>

NextEntries == EntriesCall

SpecEntries == InitEntries /\ [][NextEntries]_vars

IsTruncated(v) == v.type = "object" /\ "shownCount" \in DOMAIN v

\* C19: for a row listing of more than 50 rows, under `entries`, under
\* `rows` or as a bare list, getDataSourceEntries returns a truncated payload
\* whose shown count is 50, whose total count is the number of rows and whose
\* entries are the first 50 rows in their original order.
C19_LargeListingTruncated ==
    (/\ fpc = "listed"
     /\ IsListing(farg)
     /\ Len(farg.items) > MAX_ENTRIES) =>
        /\ IsTruncated(fout)
        /\ fout.shownCount = MAX_ENTRIES
        /\ fout.totalCount = Len(farg.items)
        /\ fout.entries = SubSeq(farg.items, 1, MAX_ENTRIES)

\* C20: for a row listing of at most 50 rows (exactly 50 and none included),
\* getDataSourceEntries returns the backend payload unchanged.
C20_SmallListingPassthrough ==
    (/\ fpc = "listed"
     /\ IsListing(farg)
     /\ Len(farg.items) <= MAX_ENTRIES) =>
        /\ DOMAIN fout = DOMAIN farg
        /\ fout = farg

C20_Witness ==
    /\ fpc = "listed"
    /\ farg.type = "object"
    /\ farg.key = "entries"
    /\ Len(farg.items) = MAX_ENTRIES
    /\ fout = farg

\* ---------------------------------------------------------------------------
\* agentLoop: a turn the model ends with its first response
\* ---------------------------------------------------------------------------

\* Deviations allowed in a turn of SpecFirst
FirstDeviations == 1

\* Contents of an end_turn response that holds blocks other than text: the
\* code looks at stop_reason only, whatever the blocks are.
MixedEndTurnContents(id) ==
    {<<ToolUse(id, NominalTool)>>,
     <<TextBlock("a"), ToolUse(id, NominalTool), TextBlock("b")>>}

\* server.js 107-124: end_turn, with text blocks only or with other blocks
ModelEndTurnAny == EndTurn(EndTurnContents \cup MixedEndTurnContents(nextId))

InitFirst ==
    /\ mode = "chat"
    /\ message \in {"", "q"}
    /\ \E sh \in ShortShapes : TurnIdle(BuildHistory(sh, 1), FirstDeviations)
    /\ GetIdle
    /\ OtherIdle

NextFirst ==
    \/ PostRejected
    \/ Post
    \/ ModelEndTurnAny
    \/ ModelToolUse
    \/ ModelOtherStop
    \/ ModelThrows
    \/ ExecTool
    \/ AppendResults
    \/ RoundLimit

SpecFirst == InitFirst /\ [][NextFirst]_vars

\* The texts of the text blocks of a content, in order
TextsOf(content) ==
    [i \in 1..Len(SelectSeq(content, LAMBDA b : b.type = "text")) |->
        SelectSeq(content, LAMBDA b : b.type = "text")[i].text]

\* Texts joined by newline, built from the last text backwards
RECURSIVE NewlineJoined(_)
NewlineJoined(texts) ==
    IF texts = <<>> THEN ""
    ELSE IF Len(texts) = 1 THEN texts[1]
         ELSE NewlineJoined(SubSeq(texts, 1, Len(texts) - 1))
                  \o "\n" \o texts[Len(texts)]

FirstIsEndTurn == stops # <<>> /\ stops[1] = "end_turn"

\* C21: when the first model response of a turn has stop reason end_turn,
\* agentLoop dispatches no tool and makes no backend request, appends exactly
\* one assistant message, and returns as reply that response's text blocks,
\* in order, joined by newline.
C21_EndTurnOnFirstRound ==
    FirstIsEndTurn =>
        /\ pc = "done"
        /\ calls = 1
        /\ apiCalls = 0
        /\ lastOutcome = "none"
        /\ toolResults = <<>>
        /\ Len(messages) = base + 1
        /\ messages[base + 1].role = "assistant"
        /\ SubSeq(messages, 1, base) = submitted
        /\ reply = NewlineJoined(TextsOf(messages[base + 1].content))

C21_Witness ==
    /\ FirstIsEndTurn
    /\ pc = "done"
    /\ NumToolUse(messages[base + 1].content) = 1
    /\ reply = "a\nb"

\* ---------------------------------------------------------------------------
\* FlipletAPI.get: the delays waited (SpecGet)
\* ---------------------------------------------------------------------------

\* The failed attempts of the call so far (every answer but a 2xx one)
FailedAttempts == {i \in DOMAIN answers : answers[i].kind # "ok"}

OnlyRetryFailures ==
    \A i \in FailedAttempts : answers[i].kind \in {"rate_limited", "network"}

\* C22: whether the failed attempts were 429 answers or network failures,
\* the delay waited after failed attempt number a (0-based) is 500 ms x 2^a,
\* and a delay is waited only between two attempts: none follows the third
\* and final attempt before the failure is reported.
C22_BackoffSchedule ==
    OnlyRetryFailures =>
        /\ \A i \in DOMAIN sleeps : sleeps[i] = RETRY_BASE_MS * 2 ^ (i - 1)
        /\ Len(sleeps) = Min(Cardinality(FailedAttempts), MAX_RETRIES - 1)

====
